---- MODULE Spec2Model ----
(***************************************************************************)
(* A model of the CDI word-to-section pipeline of process_cdi_data.py:     *)
(* normalize_word, load_section_mapping, process_cdi_file,                 *)
(* create_aggregated_by_section and calculate_key_metrics.                 *)
(*                                                                         *)
(* Text is modelled character by character: a Python str is a sequence of  *)
(* one-character strings.  A table cell is a tagged value: na = TRUE is    *)
(* pandas' missing value (NaN / None), otherwise v holds the text or the   *)
(* number.                                                                 *)
(***************************************************************************)
EXTENDS Integers, Sequences, FiniteSets, TLC

VARIABLES
    df_sections,      \* the reference table read by load_section_mapping
    df_columns,       \* df.columns of the raw wide table
    df,               \* the rows of the raw wide table
    word_to_section,  \* the taxonomy mapping
    df_result,        \* the long-format table returned by process_cdi_file
    df_agg,           \* the table returned by create_aggregated_by_section
    df_metrics,       \* the rows of the table returned by calculate_key_metrics
    metrics_columns,  \* the columns of that table
    pc,               \* how far the batch run has come
    df_original,      \* the raw table passed to calculate_key_metrics, if any
    done,             \* which of the two consumers of df_result have run
    label,            \* the argument of a call of normalize_word
    norm,             \* normalize_word(label)
    renorm            \* normalize_word(normalize_word(label))

vars == <<df_sections, df_columns, df, word_to_section, df_result, df_agg,
          df_metrics, metrics_columns, df_original, pc, done, label, norm, renorm>>

-----------------------------------------------------------------------------
(* Values *)

Str(s) == [na |-> FALSE, v |-> s]
Num(n) == [na |-> FALSE, v |-> n]
NaN == [na |-> TRUE, v |-> <<>>]
NaNNum == [na |-> TRUE, v |-> 0]

pd_isna(x) == x.na
pd_notna(x) == ~x.na

Range(s) == {s[i] : i \in DOMAIN s}

SeqsUpTo(S, n) == UNION {[1..k -> S] : k \in 0..n}

RECURSIVE Concat(_)
Concat(ss) == IF ss = <<>> THEN <<>> ELSE Head(ss) \o Concat(Tail(ss))

-----------------------------------------------------------------------------
(* Characters and str methods *)

UpperCase == <<"A","B","C","D","E","F","G","H","I","J","K","L","M",
               "N","O","P","Q","R","S","T","U","V","W","X","Y","Z">>
LowerCase == <<"a","b","c","d","e","f","g","h","i","j","k","l","m",
               "n","o","p","q","r","s","t","u","v","w","x","y","z">>
Whitespace == {" ", "\t", "\n"}

\* The characters of the model in code-point order.
CodePoints == <<"\t", "\n", " ", "!", "-", ".", "0", "1", "2", "3", "4", "5",
                "6", "7", "8", "9">> \o UpperCase \o <<"_">> \o LowerCase

ord(c) == CHOOSE i \in DOMAIN CodePoints : CodePoints[i] = c

lower_char(c) ==
    IF \E j \in DOMAIN UpperCase : UpperCase[j] = c
    THEN LowerCase[CHOOSE j \in DOMAIN UpperCase : UpperCase[j] = c]
    ELSE c

lower(s) == [i \in 1..Len(s) |-> lower_char(s[i])]

replace(s, old, new) == [i \in 1..Len(s) |-> IF s[i] = old THEN new ELSE s[i]]

RECURSIVE lstrip(_)
lstrip(s) == IF s # <<>> /\ Head(s) \in Whitespace THEN lstrip(Tail(s)) ELSE s

RECURSIVE rstrip(_)
rstrip(s) ==
    IF s # <<>> /\ s[Len(s)] \in Whitespace
    THEN rstrip(SubSeq(s, 1, Len(s) - 1))
    ELSE s

strip(s) == rstrip(lstrip(s))

\* s.split(sep)[0]: the text before the first sep, all of s when there is none
RECURSIVE split_first(_, _)
split_first(s, sep) ==
    IF s = <<>> \/ Head(s) = sep THEN <<>>
    ELSE <<Head(s)>> \o split_first(Tail(s), sep)

\* str < str
RECURSIVE str_less(_, _)
str_less(a, b) ==
    IF b = <<>> THEN FALSE
    ELSE IF a = <<>> THEN TRUE
    ELSE IF Head(a) # Head(b) THEN ord(Head(a)) < ord(Head(b))
    ELSE str_less(Tail(a), Tail(b))

-----------------------------------------------------------------------------
(* normalize_word *)

normalize_word_keeps_case(word) ==
    IF pd_isna(word) THEN NaN
    ELSE Str(replace(replace(word.v, " ", "_"), "-", "_"))

normalize_word_no_hyphen(word) ==
    IF pd_isna(word) THEN NaN
    ELSE Str(replace(lower(word.v), " ", "_"))

normalize_word(word) ==
    IF pd_isna(word) THEN NaN
    ELSE Str(replace(replace(lower(word.v), " ", "_"), "-", "_"))

-----------------------------------------------------------------------------
(* Column names *)

subject_id == <<"s","u","b","j","e","c","t","_","i","d">>
age == <<"a","g","e">>
sex == <<"s","e","x">>
study_name == <<"s","t","u","d","y","_","n","a","m","e">>

metadata_cols == <<subject_id, age, sex, study_name>>

\* The administrative and summary columns that are never word columns.  Of
\* the list in the source the model keeps the names its tables can hold.
exclude_cols == << <<"l","i","n","k">>,
                   <<"c","o","u","n","t","r","y">>,
                   <<"i","n","g">>,
                   <<"e","d">>,
                   <<"c","o","m","b","i","n","e">> >>

RECURSIVE Filter(_, _)
Filter(s, keep) ==
    IF s = <<>> THEN <<>>
    ELSE (IF Head(s) \in keep THEN <<Head(s)>> ELSE <<>>) \o Filter(Tail(s), keep)

RECURSIVE Reject(_, _)
Reject(s, drop) ==
    IF s = <<>> THEN <<>>
    ELSE (IF Head(s) \in drop THEN <<>> ELSE <<Head(s)>>) \o Reject(Tail(s), drop)

-----------------------------------------------------------------------------
(* load_section_mapping *)

EmptyDict == [k \in {} |-> 0]

DictPut(d, k, x) == [j \in DOMAIN d \cup {k} |-> IF j = k THEN x ELSE d[j]]

\* Python's truth value of the result of normalize_word
truthy(word) == pd_notna(word) /\ word.v # <<>>

section_entry(row) ==
    [section_number |-> row.section_number,
     section_title |-> row.section_title,
     cdi_code |-> row.cdi_code]

RECURSIVE load_rows_first_wins(_, _)
load_rows_first_wins(rows, d) ==
    IF rows = <<>> THEN d
    ELSE LET row == Head(rows)
             word == normalize_word(row.word)
         IN  load_rows_first_wins(Tail(rows),
                 IF truthy(word) /\ word.v \notin DOMAIN d
                 THEN DictPut(d, word.v, section_entry(row))
                 ELSE d)

RECURSIVE load_rows(_, _)
load_rows(rows, d) ==
    IF rows = <<>> THEN d
    ELSE LET row == Head(rows)
             word == normalize_word(row.word)
         IN  load_rows(Tail(rows),
                 IF truthy(word)
                 THEN DictPut(d, word.v, section_entry(row))
                 ELSE d)

load_section_mapping(rows) == load_rows(rows, EmptyDict)

-----------------------------------------------------------------------------
(* process_cdi_file *)

available_metadata(columns) == Filter(metadata_cols, Range(columns))

exclude_set(columns) == Range(exclude_cols) \cup Range(available_metadata(columns))

word_columns(columns) == Reject(columns, exclude_set(columns))

subject_info(row, columns) ==
    [col \in Range(available_metadata(columns)) |-> row[col]]

is_produced_startswith(value) ==
    /\ pd_notna(value)
    /\ Len(strip(value.v)) >= 7
    /\ SubSeq(lower(strip(value.v)), 1, 7) = <<"p","r","o","d","u","c","e">>

is_produced_not_null(value) == pd_notna(value)

\* the cell marks the word as produced
is_produced(value) ==
    pd_notna(value) /\ lower(strip(value.v)) = <<"p","r","o","d","u","c","e","s">>

base_word_whole(word_col) == normalize_word(Str(word_col)).v

\* the lookup key of a word column
base_word(word_col) ==
    LET normalized_col == normalize_word(Str(word_col)).v
    IN  IF "." \in Range(normalized_col)
        THEN split_first(normalized_col, ".")
        ELSE normalized_col

result_row_keeps_underscores(row, columns, word_col, section_info) ==
    [meta |-> subject_info(row, columns),
     word |-> base_word(word_col),
     word_column |-> word_col,
     section_number |-> section_info.section_number,
     section_title |-> section_info.section_title,
     cdi_code |-> section_info.cdi_code]

result_row_names_key(row, columns, word_col, section_info) ==
    [meta |-> subject_info(row, columns),
     word |-> replace(base_word(word_col), "_", " "),
     word_column |-> base_word(word_col),
     section_number |-> section_info.section_number,
     section_title |-> section_info.section_title,
     cdi_code |-> section_info.cdi_code]

result_row(row, columns, word_col, section_info) ==
    [meta |-> subject_info(row, columns),
     word |-> replace(base_word(word_col), "_", " "),
     word_column |-> word_col,
     section_number |-> section_info.section_number,
     section_title |-> section_info.section_title,
     cdi_code |-> section_info.cdi_code]

unknown_section == [section_number |-> NaNNum, section_title |-> NaN, cdi_code |-> NaNNum]

RECURSIVE row_results_keeps_unmapped(_, _, _, _)
row_results_keeps_unmapped(row, columns, wcols, mapping) ==
    IF wcols = <<>> THEN <<>>
    ELSE LET word_col == Head(wcols)
             rest == row_results_keeps_unmapped(row, columns, Tail(wcols), mapping)
         IN  IF is_produced(row[word_col])
             THEN <<result_row(row, columns, word_col,
                               IF base_word(word_col) \in DOMAIN mapping
                               THEN mapping[base_word(word_col)]
                               ELSE unknown_section)>>
                  \o rest
             ELSE rest

\* the records one row of the table adds to results
RECURSIVE row_results(_, _, _, _)
row_results(row, columns, wcols, mapping) ==
    IF wcols = <<>> THEN <<>>
    ELSE LET word_col == Head(wcols)
             rest == row_results(row, columns, Tail(wcols), mapping)
         IN  IF is_produced(row[word_col]) /\ base_word(word_col) \in DOMAIN mapping
             THEN <<result_row(row, columns, word_col, mapping[base_word(word_col)])>>
                  \o rest
             ELSE rest

process_rows(rows, columns, mapping) ==
    Concat([i \in 1..Len(rows) |->
               row_results(rows[i], columns, word_columns(columns), mapping)])

-----------------------------------------------------------------------------
(* pandas groupby: keys and their order *)

long_columns(df_long) == IF df_long = <<>> THEN {} ELSE DOMAIN df_long[1].meta

\* the columns pandas reads as numbers
numeric_cols == {age}

val_less(a, b, numeric) == IF numeric THEN a.v < b.v ELSE str_less(a.v, b.v)

RECURSIVE tuple_less(_, _, _)
tuple_less(k1, k2, numeric) ==
    IF k1 = <<>> THEN FALSE
    ELSE IF Head(k1) # Head(k2) THEN val_less(Head(k1), Head(k2), Head(numeric))
    ELSE tuple_less(Tail(k1), Tail(k2), Tail(numeric))

\* the group keys in the order groupby(sort=True) yields them
RECURSIVE sorted_keys(_, _)
sorted_keys(keys, numeric) ==
    IF keys = {} THEN <<>>
    ELSE LET first == CHOOSE k \in keys :
                          \A o \in keys \ {k} : tuple_less(k, o, numeric)
         IN  <<first>> \o sorted_keys(keys \ {first}, numeric)

has_na(key) == \E i \in DOMAIN key : pd_isna(key[i])

\* groupby(dropna=True) leaves out the rows whose key holds a missing value
group_keys(keys) == {k \in Range(keys) : ~has_na(k)}

RECURSIVE positions(_, _, _)
positions(keys, key, i) ==
    IF i > Len(keys) THEN <<>>
    ELSE (IF keys[i] = key THEN <<i>> ELSE <<>>) \o positions(keys, key, i + 1)

\* the rows of a group, in the order of the table
group_rows(df_long, keys, key) ==
    LET pos == positions(keys, key, 1)
    IN  [j \in 1..Len(pos) |-> df_long[pos[j]]]

-----------------------------------------------------------------------------
(* JSON values *)

JString(s) == [t |-> "string", v |-> s]
JNumber(n) == [t |-> "number", v |-> n]
JNull == [t |-> "null", v |-> 0]
JNaN == [t |-> "NaN", v |-> <<>>]

Digits == <<"0","1","2","3","4","5","6","7","8","9">>

RECURSIVE str_int(_)
str_int(n) ==
    IF n < 10 THEN <<Digits[n + 1]>>
    ELSE str_int(n \div 10) \o <<Digits[(n % 10) + 1]>>

\* str(value) of a cell; a numeric column that holds a missing value is a
\* column of floats
py_str(value, numeric, float) ==
    IF ~numeric THEN value.v
    ELSE IF float THEN str_int(value.v) \o <<".", "0">>
    ELSE str_int(value.v)

\* int(x) of a whole number
py_int(n) == n

\* json.loads of one value: null is None, NaN is nan
json_loads(j) ==
    IF j.t = "null" THEN NaNNum
    ELSE IF j.t = "NaN" THEN NaN
    ELSE [na |-> FALSE, v |-> j.v]

-----------------------------------------------------------------------------
(* calculate_key_metrics *)

verb_sections_with_pronouns == <<14, 15, 19, 21>>

verb_sections == <<14, 15, 21>>
pronoun_section == 19
wh_words_section == 16

available_subject_cols(df_long) == Filter(metadata_cols, long_columns(df_long))

\* df_long['subject_id'], which is df_long.index when the column is missing
subject_keys(df_long) ==
    [i \in 1..Len(df_long) |->
        IF subject_id \in long_columns(df_long)
        THEN <<df_long[i].meta[subject_id]>>
        ELSE <<Num(i - 1)>>]

isin(x, values) == pd_notna(x) /\ x.v \in Range(values)
equals(x, n) == pd_notna(x) /\ x.v = n

count_where_in(group, values) ==
    Cardinality({j \in DOMAIN group : isin(group[j].section_number, values)})

count_where_eq(group, n) ==
    Cardinality({j \in DOMAIN group : equals(group[j].section_number, n)})

word_entry_zero_for_null(row) ==
    [word |-> JString(row.word),
     section_number |-> IF pd_notna(row.section_number)
                        THEN JNumber(py_int(row.section_number.v)) ELSE JNumber(0),
     section_title |-> IF pd_notna(row.section_title)
                       THEN JString(row.section_title.v) ELSE JNaN,
     cdi_code |-> IF pd_notna(row.cdi_code)
                  THEN JNumber(py_int(row.cdi_code.v)) ELSE JNull]

word_entry(row) ==
    [word |-> JString(row.word),
     section_number |-> IF pd_notna(row.section_number)
                        THEN JNumber(py_int(row.section_number.v)) ELSE JNull,
     section_title |-> IF pd_notna(row.section_title)
                       THEN JString(row.section_title.v) ELSE JNaN,
     cdi_code |-> IF pd_notna(row.cdi_code)
                  THEN JNumber(py_int(row.cdi_code.v)) ELSE JNull]

words_list(group) == [j \in 1..Len(group) |-> word_entry(group[j])]

word_columns_metrics_keeps_excluded(columns) == Reject(columns, Range(metadata_cols))

\* the word columns as the metadata pass derives them
word_columns_metrics(columns) ==
    Reject(columns, Range(exclude_cols) \cup Range(metadata_cols))

is_float_column(rows, col) == \E i \in DOMAIN rows : pd_isna(rows[i][col])

parent_info_last_row(original, key) ==
    IF original = <<>> THEN EmptyDict
    ELSE LET columns == original[1]
             rows == original[2]
         IN  IF subject_id \notin Range(columns) THEN EmptyDict
             ELSE LET parent_rows == {i \in DOMAIN rows : rows[i][subject_id] = key}
                  IN  IF parent_rows = {} THEN EmptyDict
                      ELSE LET parent_row ==
                                   rows[CHOOSE i \in parent_rows :
                                            \A j \in parent_rows : j <= i]
                               kept == {col \in Range(columns) :
                                          /\ col \notin Range(word_columns_metrics(columns))
                                          /\ pd_notna(parent_row[col])}
                           IN  [col \in kept |->
                                   JString(py_str(parent_row[col],
                                                  col \in numeric_cols,
                                                  is_float_column(rows, col)))]

\* parent_info: original is <<>> when no raw table is passed, else
\* <<columns, rows>>
parent_info(original, key) ==
    IF original = <<>> THEN EmptyDict
    ELSE LET columns == original[1]
             rows == original[2]
         IN  IF subject_id \notin Range(columns) THEN EmptyDict
             ELSE LET parent_rows == {i \in DOMAIN rows : rows[i][subject_id] = key}
                  IN  IF parent_rows = {} THEN EmptyDict
                      ELSE LET parent_row ==
                                   rows[CHOOSE i \in parent_rows :
                                            \A j \in parent_rows : i <= j]
                               kept == {col \in Range(columns) :
                                          /\ col \notin Range(word_columns_metrics(columns))
                                          /\ pd_notna(parent_row[col])}
                           IN  [col \in kept |->
                                   JString(py_str(parent_row[col],
                                                  col \in numeric_cols,
                                                  is_float_column(rows, col)))]

metrics_row(df_long, group, key, original) ==
    LET first_row == group[1]
        info == [col \in Range(available_subject_cols(df_long)) |-> first_row.meta[col]]
    IN  [info |-> IF subject_id \in DOMAIN info THEN info
                  ELSE [col \in DOMAIN info \cup {subject_id} |->
                           IF col = subject_id THEN key[1] ELSE info[col]],
         total_words |-> Len(group),
         verbs_count |-> count_where_in(group, verb_sections),
         pronouns_count |-> count_where_eq(group, pronoun_section),
         wh_words_count |-> count_where_eq(group, wh_words_section),
         words_produced |-> words_list(group),
         parent_info |-> parent_info(original, key[1])]

\* df_metrics[column_order]
reorder(row, column_order) ==
    [row EXCEPT !.info = [col \in DOMAIN row.info \cap Range(column_order) |->
                             row.info[col]]]

calculate_key_metrics(df_long, original) ==
    IF Len(df_long) = 0 THEN <<>>
    ELSE LET keys == subject_keys(df_long)
             order == sorted_keys(group_keys(keys),
                                  <<subject_id \notin long_columns(df_long)>>)
         IN  [g \in 1..Len(order) |->
                 reorder(metrics_row(df_long, group_rows(df_long, keys, order[g]),
                                     order[g], original),
                         available_subject_cols(df_long))]

-----------------------------------------------------------------------------
(* create_aggregated_by_section *)

agg_row_counts_distinct(df_long, group) ==
    [info |-> [col \in Range(available_subject_cols(df_long)) |-> group[1].meta[col]],
     section_number |-> group[1].section_number,
     section_title |-> group[1].section_title,
     cdi_code |-> group[1].cdi_code,
     words |-> [j \in 1..Len(group) |-> group[j].word],
     word_count |-> Cardinality({group[j].word : j \in 1..Len(group)})]

agg_row(df_long, group) ==
    [info |-> [col \in Range(available_subject_cols(df_long)) |-> group[1].meta[col]],
     section_number |-> group[1].section_number,
     section_title |-> group[1].section_title,
     cdi_code |-> group[1].cdi_code,
     words |-> [j \in 1..Len(group) |-> group[j].word],
     word_count |-> Len(group)]

create_aggregated_per_record(df_long) ==
    [i \in 1..Len(df_long) |-> agg_row(df_long, <<df_long[i]>>)]

create_aggregated_by_section(df_long) ==
    IF Len(df_long) = 0 THEN <<>>
    ELSE LET subject_cols == available_subject_cols(df_long)
             keys == [i \in 1..Len(df_long) |->
                        [j \in 1..Len(subject_cols) |-> df_long[i].meta[subject_cols[j]]]
                        \o <<df_long[i].section_number, df_long[i].section_title,
                             df_long[i].cdi_code>>]
             numeric == [j \in 1..Len(subject_cols) |-> subject_cols[j] \in numeric_cols]
                        \o <<TRUE, FALSE, TRUE>>
             order == sorted_keys(group_keys(keys), numeric)
         IN  [g \in 1..Len(order) |->
                 agg_row(df_long, group_rows(df_long, keys, order[g]))]

-----------------------------------------------------------------------------
(* The batch run *)

LoadSectionMapping ==
    /\ pc = "start"
    /\ word_to_section' = load_section_mapping(df_sections)
    /\ pc' = "loaded"
    /\ UNCHANGED <<df_sections, df_columns, df, df_result, df_agg, df_metrics,
                   metrics_columns, df_original, done, label, norm, renorm>>

\* process_cdi_file loads the mapping itself and returns the long-format table
ProcessCdiFile ==
    /\ pc \in {"start", "loaded"}
    /\ word_to_section' = load_section_mapping(df_sections)
    /\ df_result' = process_rows(df, df_columns, word_to_section')
    /\ pc' = "processed"
    /\ UNCHANGED <<df_sections, df_columns, df, df_agg, df_metrics,
                   metrics_columns, df_original, done, label, norm, renorm>>

CreateAggregatedBySection ==
    /\ pc = "processed"
    /\ "aggregated" \notin done
    /\ df_agg' = create_aggregated_by_section(df_result)
    /\ done' = done \cup {"aggregated"}
    /\ UNCHANGED <<df_sections, df_columns, df, word_to_section, df_result,
                   df_metrics, metrics_columns, df_original, pc, label, norm, renorm>>

\* calculate_key_metrics(df_long, df_original), df_original being optional:
\* no raw table, the raw table of the run, or a raw table without its first row
CalculateKeyMetrics ==
    /\ pc = "processed"
    /\ "metrics" \notin done
    /\ \E original \in {<<>>, <<df_columns, df>>,
                        <<df_columns, SubSeq(df, 2, Len(df))>>} :
          /\ df_original' = original
          /\ df_metrics' = calculate_key_metrics(df_result, original)
    /\ metrics_columns' = IF df_metrics' = <<>> THEN <<>>
                          ELSE available_subject_cols(df_result)
    /\ done' = done \cup {"metrics"}
    /\ UNCHANGED <<df_sections, df_columns, df, word_to_section, df_result,
                   df_agg, pc, label, norm, renorm>>

Next ==
    \/ LoadSectionMapping
    \/ ProcessCdiFile
    \/ CreateAggregatedBySection
    \/ CalculateKeyMetrics

\* a call of normalize_word, and a second call on its result
NormalizeWord ==
    /\ pc = "normalize"
    /\ norm' = normalize_word(label)
    /\ renorm' = normalize_word(norm')
    /\ pc' = "normalized"
    /\ UNCHANGED <<df_sections, df_columns, df, word_to_section, df_result, df_agg,
                   df_metrics, metrics_columns, df_original, done, label>>

NextNormalize == NormalizeWord

-----------------------------------------------------------------------------
(* The inputs of the model: labels, cells, reference tables, raw tables *)

Dog == <<"d","o","g">>
Go == <<"g","o">>
You == <<"y","o","u">>
What == <<"w","h","a","t">>
Chicken == <<"c","h","i","c","k","e","n">>
Zebra == <<"z","e","b","r","a">>
Cat == <<"c","a","t">>
ChickenAnimal == <<"c","h","i","c","k","e","n",".","a","n","i","m","a","l">>
ChickenFood == <<"c","h","i","c","k","e","n",".","f","o","o","d">>
Mommy == <<"M","o","m","m","y">>
MommyLower == <<"m","o","m","m","y">>
MommyUpper == <<"M","O","M","M","Y">>
IceCreamHyphen == <<"i","c","e","-","c","r","e","a","m">>
IceCreamUnderscore == <<"i","c","e","_","c","r","e","a","m">>
IceCreamSpace == <<"I","c","e"," ","c","r","e","a","m">>
Link == <<"l","i","n","k">>
ANIMALS == <<"A","N","I","M","A","L","S">>
ACTION_WORDS == <<"A","C","T","I","O","N"," ","W","O","R","D","S">>
PRONOUNS == <<"P","R","O","N","O","U","N","S">>
QUESTION_WORDS == <<"Q","U","E","S","T","I","O","N"," ","W","O","R","D","S">>
FOOD == <<"F","O","O","D">>
ADVERBS == <<"A","D","V","E","R","B","S">>
HELPING_VERBS == <<"H","E","L","P","I","N","G"," ","V","E","R","B","S">>
S1 == <<"S","1">>
S2 == <<"S","2">>
Female == <<"F">>
StudyA == <<"A">>
Produces == <<"p","r","o","d","u","c","e","s">>
ProducesUpper == <<"P","R","O","D","U","C","E","S">>
ProducesPadded == <<" ","P","r","o","d","u","c","e","s"," ">>
ProducesNewline == <<"p","r","o","d","u","c","e","s","\n">>
NotYet == <<"n","o","t"," ","y","e","t">>
Produce == <<"p","r","o","d","u","c","e">>
ProducesBang == <<"p","r","o","d","u","c","e","s","!">>
ProDuces == <<"p","r","o"," ","d","u","c","e","s">>
Understands == <<"u","n","d","e","r","s","t","a","n","d","s">>

ref_row(word, number, title, code) ==
    [word |-> word, section_number |-> number, section_title |-> title,
     cdi_code |-> code]

\* a reference table: one word per section kind, the last without a section
\* number and taxonomy code
RefPool ==
    << ref_row(Str(Dog), Num(5), Str(ANIMALS), Num(101)),
       ref_row(Str(Go), Num(15), Str(ACTION_WORDS), Num(1501)),
       ref_row(Str(You), Num(19), Str(PRONOUNS), Num(1901)),
       ref_row(Str(What), Num(16), Str(QUESTION_WORDS), Num(1601)),
       ref_row(Str(Chicken), NaNNum, Str(FOOD), NaNNum) >>

\* the reference tables made of the first rows of RefPool
RefPrefixes == {SubSeq(RefPool, 1, n) : n \in 0..Len(RefPool)}

MaxRows == 2
MaxLen == 3

ColumnDomain(col, sids, cells) ==
    IF col = subject_id THEN sids
    ELSE IF col = age THEN {Num(24)}
    ELSE IF col = sex THEN {Str(Female)}
    ELSE IF col = study_name THEN {Str(StudyA)}
    ELSE cells

\* the rows a table of these columns can hold
RECURSIVE RowSet(_, _, _)
RowSet(cols, sids, cells) ==
    IF cols = <<>> THEN {EmptyDict}
    ELSE {(Head(cols) :> x) @@ r :
             x \in ColumnDomain(Head(cols), sids, cells),
             r \in RowSet(Tail(cols), sids, cells)}

Tables(sections, cols, sids, cells, counts) ==
    {[sections |-> sections, columns |-> cols, rows |-> rows] :
        rows \in UNION {[1..k -> RowSet(cols, sids, cells)] : k \in counts}}

\* up to MaxRows subjects, with equal, different and missing identifiers, with
\* and without the metadata columns
SubjectInputs ==
    UNION {Tables(RefPool, meta \o <<Dog, Go>>, {Str(S1), Str(S2), NaN},
                  {Str(Produces), NaN}, 0..MaxRows) :
              meta \in {<<>>, <<subject_id>>, <<subject_id, age, sex, study_name>>}}

\* one subject and every word column, against a growing reference table
SectionInputs ==
    UNION {Tables(sections,
                  <<subject_id, Dog, Go, You, What, ChickenAnimal, ChickenFood, Zebra>>,
                  {Str(S1)}, {Str(Produces), Str(NotYet)}, {1}) :
              sections \in RefPrefixes}

CellPool ==
    {NaN, Str(Produces), Str(ProducesUpper), Str(ProducesPadded),
     Str(ProducesNewline), Str(NotYet), Str(Produce), Str(ProducesBang),
     Str(ProDuces), Str(Understands)}

\* one subject, every kind of cell value, an administrative column
CellInputs ==
    UNION {Tables(sections, <<subject_id, Link, Dog, Zebra>>, {Str(S1)},
                  CellPool, {1}) :
              sections \in {<<>>, SubSeq(RefPool, 1, 1)}}

JoinLabels ==
    <<Mommy, MommyLower, MommyUpper, IceCreamHyphen, IceCreamUnderscore,
      IceCreamSpace, Chicken, ChickenAnimal, ChickenFood, Dog>>

\* reference tables of one and two rows, their words in every spelling
JoinSections ==
    {<<ref_row(Str(w), Num(5), Str(ANIMALS), Num(101))>> : w \in Range(JoinLabels)}
    \cup {<<ref_row(Str(w1), Num(14), Str(ADVERBS), Num(1401)),
            ref_row(Str(w2), Num(21), Str(HELPING_VERBS), Num(2101))>> :
             w1 \in Range(JoinLabels), w2 \in Range(JoinLabels)}

\* one and two word columns, their names in every spelling
JoinColumns ==
    {<<subject_id, JoinLabels[i]>> : i \in DOMAIN JoinLabels}
    \cup {<<subject_id, JoinLabels[ij[1]], JoinLabels[ij[2]]>> :
             ij \in {p \in (DOMAIN JoinLabels) \X (DOMAIN JoinLabels) : p[1] < p[2]}}

\* one subject who produces every word of the table
JoinInputs ==
    UNION {Tables(sections, cols, {Str(S1)}, {Str(Produces)}, {1}) :
              sections \in JoinSections, cols \in JoinColumns}

\* two words of one section, in the column order dog, cat
AggSections ==
    << ref_row(Str(Dog), Num(5), Str(ANIMALS), Num(101)),
       ref_row(Str(Cat), Num(5), Str(ANIMALS), Num(101)) >>

AggRowSet ==
    {(subject_id :> Str(S1)) @@ (age :> a) @@ (Dog :> x) @@ (Cat :> y) :
        a \in {Num(24), Num(30), NaN},
        x \in {Str(Produces), NaN},
        y \in {Str(Produces), NaN}}

\* one subject seen once or several times, at the same age, at another age
\* and with the age missing
AggInputs ==
    {[sections |-> AggSections, columns |-> <<subject_id, age, Dog, Cat>>,
      rows |-> rows] :
        rows \in UNION {[1..k -> AggRowSet] : k \in 1..MaxRows}}

\* reference rows whose words collide after normalisation, and one without a
\* word
LoadPool ==
    { ref_row(Str(Dog), Num(5), Str(ANIMALS), Num(101)),
      ref_row(Str(<<"D","o","g">>), Num(15), Str(ACTION_WORDS), Num(1501)),
      ref_row(NaN, Num(19), Str(PRONOUNS), Num(1901)),
      ref_row(Str(Go), Num(16), Str(QUESTION_WORDS), Num(1601)) }

\* reference tables of up to MaxLen rows, read for one subject
LoadInputs ==
    {[sections |-> sections, columns |-> <<subject_id, Dog, Go>>,
      rows |-> <<(subject_id :> Str(S1)) @@ (Dog :> Str(Produces))
                   @@ (Go :> Str(Produces))>>] :
        sections \in SeqsUpTo(LoadPool, MaxLen)}

Inputs ==
    SubjectInputs \cup SectionInputs \cup CellInputs \cup JoinInputs
        \cup AggInputs \cup LoadInputs

Init ==
    /\ \E input \in Inputs :
          /\ df_sections = input.sections
          /\ df_columns = input.columns
          /\ df = input.rows
    /\ word_to_section = EmptyDict
    /\ df_result = <<>>
    /\ df_agg = <<>>
    /\ df_metrics = <<>>
    /\ metrics_columns = <<>>
    /\ df_original = <<>>
    /\ pc = "start"
    /\ done = {}
    /\ label = NaN
    /\ norm = NaN
    /\ renorm = NaN

Spec == Init /\ [][Next]_vars

NormalizeAlphabet == {"a", "B", " ", "-", "_", ".", "1"}

InitNormalize ==
    /\ label \in {NaN} \cup {Str(s) : s \in SeqsUpTo(NormalizeAlphabet, MaxLen)}
    /\ norm = NaN
    /\ renorm = NaN
    /\ df_sections = <<>>
    /\ df_columns = <<>>
    /\ df = <<>>
    /\ word_to_section = EmptyDict
    /\ df_result = <<>>
    /\ df_agg = <<>>
    /\ df_metrics = <<>>
    /\ metrics_columns = <<>>
    /\ df_original = <<>>
    /\ pc = "normalize"
    /\ done = {}

SpecNormalize == InitNormalize /\ [][NextNormalize]_vars

-----------------------------------------------------------------------------
(* Vocabulary of the properties *)

MetricsDone == "metrics" \in done
AggregatedDone == "aggregated" \in done

Separators == {" ", "-", "_"}

\* c is letter number n of the alphabet, in either case
IsLetter(c, n) == c = UpperCase[n] \/ c = LowerCase[n]

\* the character the normal form holds in the place of c
NormalChar(c) ==
    IF c \in Separators THEN "_"
    ELSE IF \E n \in DOMAIN UpperCase : c = UpperCase[n]
         THEN LowerCase[CHOOSE n \in DOMAIN UpperCase : c = UpperCase[n]]
         ELSE c

\* the long-format records of the subject of the g-th metrics record, in
\* long-format order; without a subject_id column the subject identifier is
\* the position of the record
SubjectRecords(g) ==
    IF subject_id \in long_columns(df_result)
    THEN SelectSeq(df_result,
                   LAMBDA r : r.meta[subject_id] = df_metrics[g].info[subject_id])
    ELSE <<df_result[g]>>

NamedSections == {14, 15, 21, 19, 16}

InNamedSection(r) == pd_notna(r.section_number) /\ r.section_number.v \in NamedSections

RECURSIVE SumTotalWords(_)
SumTotalWords(rows) ==
    IF rows = <<>> THEN 0 ELSE Head(rows).total_words + SumTotalWords(Tail(rows))

-----------------------------------------------------------------------------
(* C9: normalize_word is idempotent and keeps a missing label missing; of a
   present label it changes nothing but the case of the letters and spaces
   and hyphens, which become underscores. *)
C9_NormalizeIdempotent ==
    pc = "normalized" =>
        /\ renorm = norm
        /\ pd_isna(label) => pd_isna(norm)
        /\ pd_notna(label) =>
              /\ pd_notna(norm)
              /\ Len(norm.v) = Len(label.v)
              /\ \A i \in 1..Len(label.v) : norm.v[i] = NormalChar(label.v[i])

C9_Witness ==
    /\ pc = "normalized"
    /\ label = Str(<<"B", "-", " ">>)
    /\ norm = Str(<<"b", "_", "_">>)

(* C1: the total of a metrics record is the sum of its three category counts
   and the number of the subject's records in no named section. *)
C1_CategoriesPartitionTotal ==
    MetricsDone =>
        \A g \in DOMAIN df_metrics :
            LET m == df_metrics[g]
                records == SubjectRecords(g)
                others == Cardinality({i \in DOMAIN records : ~InNamedSection(records[i])})
            IN  m.total_words
                    = m.verbs_count + m.pronouns_count + m.wh_words_count + others

C1_Witness ==
    /\ MetricsDone
    /\ \E g \in DOMAIN df_metrics :
          /\ df_metrics[g].verbs_count = 1
          /\ df_metrics[g].pronouns_count = 1
          /\ df_metrics[g].wh_words_count = 1
          /\ df_metrics[g].total_words = 6
    /\ \E i \in DOMAIN df_result : df_result[i].section_number = NaNNum

\* the subject identifiers that occur in the long-format table
SubjectIdentifiers ==
    IF subject_id \in long_columns(df_result)
    THEN {df_result[i].meta[subject_id] : i \in DOMAIN df_result}
    ELSE {}

OneRecordPerIdentifier ==
    \A sid \in {x \in SubjectIdentifiers : pd_notna(x)} :
        /\ Cardinality({g \in DOMAIN df_metrics :
                           df_metrics[g].info[subject_id] = sid}) = 1
        /\ \A g \in DOMAIN df_metrics :
              df_metrics[g].info[subject_id] = sid =>
                  df_metrics[g].total_words
                      = Cardinality({i \in DOMAIN df_result :
                                        df_result[i].meta[subject_id] = sid})

(* C2: one metrics record for each subject identifier of the long-format
   table, its total_words the number of records with that identifier, so that
   the totals add up to the size of the long-format table. *)
C2_TotalsCoverLongTable ==
    MetricsDone =>
        /\ OneRecordPerIdentifier
        /\ SumTotalWords(df_metrics) = Len(df_result)

\* the raw rows that produced a word, in table order
ProducingRows ==
    LET produced(i) == row_results(df[i], df_columns, word_columns(df_columns),
                                   word_to_section)
        pick[i \in 0..Len(df)] ==
            IF i = 0 THEN <<>>
            ELSE pick[i - 1] \o (IF produced(i) # <<>> THEN <<Len(produced(i))>> ELSE <<>>)
    IN  pick[Len(df)]

(* C3: without a subject_id column the metrics hold one record for each raw
   row that produced a word, its total_words the number of words of that
   row. *)
C3_FallbackGroupsByRow ==
    (MetricsDone /\ subject_id \notin Range(df_columns)) =>
        /\ Len(df_metrics) = Len(ProducingRows)
        /\ \A k \in DOMAIN df_metrics :
              df_metrics[k].total_words = ProducingRows[k]

\* the text marks a word as produced: "produces" in any case between
\* whitespace
MarksProduced(value) ==
    /\ pd_notna(value)
    /\ \E a \in 0..Len(value.v) :
          /\ Len(value.v) >= a + Len(Produces)
          /\ \A k \in 1..a : value.v[k] \in Whitespace
          /\ \A k \in (a + Len(Produces) + 1)..Len(value.v) : value.v[k] \in Whitespace
          /\ \A k \in 1..Len(Produces) :
                \E n \in DOMAIN LowerCase :
                    Produces[k] = LowerCase[n] /\ IsLetter(value.v[a + k], n)

NormalForm(s) == [i \in 1..Len(s) |-> NormalChar(s[i])]

BeforeDot(s) ==
    IF \E i \in DOMAIN s : s[i] = "."
    THEN SubSeq(s, 1, (CHOOSE i \in DOMAIN s :
                          s[i] = "." /\ \A j \in 1..(i - 1) : s[j] # ".") - 1)
    ELSE s

\* the key a word column is looked up by, and the word its records carry
LookupKey(c) == BeforeDot(NormalForm(c))
DisplayWord(c) ==
    [i \in 1..Len(LookupKey(c)) |-> IF LookupKey(c)[i] = "_" THEN " " ELSE LookupKey(c)[i]]

WordColumns == Range(df_columns) \ (Range(exclude_cols) \cup Range(metadata_cols))

RecordsOfColumn(c) == {k \in DOMAIN df_result : df_result[k].word_column = c}

SectionFields(r) ==
    [section_number |-> r.section_number, section_title |-> r.section_title,
     cdi_code |-> r.cdi_code]

(* C4: a word column has no more long-format records than rows whose cell is
   present and reads "produces" once trimmed and lowercased. *)
C4_OnlyProducesYieldsRecord ==
    pc = "processed" =>
        /\ \A k \in DOMAIN df_result : df_result[k].word_column \in WordColumns
        /\ \A c \in WordColumns :
              Cardinality(RecordsOfColumn(c))
                  <= Cardinality({i \in DOMAIN df : MarksProduced(df[i][c])})

C4_Witness ==
    /\ pc = "processed"
    /\ Dog \in DOMAIN word_to_section
    /\ Go \in DOMAIN word_to_section
    /\ Len(df) = 1
    /\ Dog \in Range(df_columns) /\ df[1][Dog] = Str(NotYet)
    /\ Go \in Range(df_columns) /\ df[1][Go] = Str(Produces)
    /\ RecordsOfColumn(Dog) = {}
    /\ RecordsOfColumn(Go) # {}

(* C5: a produced word whose lookup key is not in the mapping is in none of
   the three outputs. *)
C5_UnmappedWordInNoOutput ==
    (AggregatedDone /\ MetricsDone) =>
        \A i \in DOMAIN df : \A c \in WordColumns :
            (MarksProduced(df[i][c]) /\ LookupKey(c) \notin DOMAIN word_to_section) =>
                /\ \A k \in DOMAIN df_result :
                      /\ df_result[k].word_column # c
                      /\ df_result[k].word # DisplayWord(c)
                /\ \A k \in DOMAIN df_agg : DisplayWord(c) \notin Range(df_agg[k].words)
                /\ \A g \in DOMAIN df_metrics :
                      \A j \in DOMAIN df_metrics[g].words_produced :
                          df_metrics[g].words_produced[j].word.v # DisplayWord(c)

C5_Witness ==
    /\ AggregatedDone /\ MetricsDone
    /\ Zebra \in Range(df_columns)
    /\ df[1][Zebra] = Str(Produces)
    /\ Len(df_result) = 2
    /\ Len(df_agg) = 2
    /\ Len(df_metrics) = 1

PresentMetadata == Range(metadata_cols) \cap Range(df_columns)

ExampleRecord ==
    [meta |-> (subject_id :> Str(S1)), word |-> Dog, word_column |-> Dog,
     section_number |-> Num(5), section_title |-> Str(ANIMALS), cdi_code |-> Num(101)]

IsExample ==
    /\ df_sections = <<ref_row(Str(Dog), Num(5), Str(ANIMALS), Num(101))>>
    /\ df_columns = <<subject_id, Dog>>
    /\ df = <<(subject_id :> Str(S1)) @@ (Dog :> Str(Produces))>>

(* C6: the long-format table holds one record for each produced and mapped
   cell, with the metadata of its row, the lookup key with spaces for
   underscores, the column name as it is and the section fields of the key;
   the example of the dog gives one record and one metrics row. *)
C6_RecordCarriesRowAndEntry ==
    /\ pc = "processed" =>
          /\ Len(df_result)
                = Cardinality({ic \in (DOMAIN df) \X WordColumns :
                                  /\ MarksProduced(df[ic[1]][ic[2]])
                                  /\ LookupKey(ic[2]) \in DOMAIN word_to_section})
          /\ \A k \in DOMAIN df_result :
                LET r == df_result[k]
                IN  /\ r.word_column \in WordColumns
                    /\ r.word = DisplayWord(r.word_column)
                    /\ SectionFields(r) = word_to_section[LookupKey(r.word_column)]
                    /\ \E i \in DOMAIN df :
                          /\ MarksProduced(df[i][r.word_column])
                          /\ r.meta = [col \in PresentMetadata |-> df[i][col]]
    /\ (pc = "processed" /\ IsExample) => df_result = <<ExampleRecord>>
    /\ (MetricsDone /\ IsExample) =>
          /\ Len(df_metrics) = 1
          /\ df_metrics[1].total_words = 1
          /\ df_metrics[1].verbs_count = 0
          /\ df_metrics[1].pronouns_count = 0
          /\ df_metrics[1].wh_words_count = 0

C6_Witness ==
    /\ MetricsDone
    /\ IsExample
    /\ df_result = <<ExampleRecord>>
    /\ df_metrics[1].info[subject_id] = Str(S1)

(* C7: a produced column with a dot in its name is looked up by the part of
   its normal form before the first dot; chicken.animal and chicken.food get
   the word and the section fields of the reference word chicken. *)
C7_DottedColumnUsesBase ==
    pc = "processed" =>
        \A i \in DOMAIN df : \A c \in WordColumns :
            ("." \in Range(c) /\ MarksProduced(df[i][c])) =>
                /\ LookupKey(c) \in DOMAIN word_to_section =>
                      \E k \in RecordsOfColumn(c) :
                          /\ df_result[k].word = DisplayWord(c)
                          /\ SectionFields(df_result[k]) = word_to_section[LookupKey(c)]
                /\ (c \in {ChickenAnimal, ChickenFood}
                        /\ \E j \in DOMAIN df_sections : df_sections[j].word = Str(Chicken)) =>
                      \E k \in RecordsOfColumn(c) :
                          /\ df_result[k].word = Chicken
                          /\ SectionFields(df_result[k]) = word_to_section[Chicken]

C7_Witness ==
    /\ pc = "processed"
    /\ \E j \in DOMAIN df_sections : df_sections[j].word = Str(Chicken)
    /\ \E k \in RecordsOfColumn(ChickenAnimal) : df_result[k].word = Chicken
    /\ \E k \in RecordsOfColumn(ChickenFood) : df_result[k].word = Chicken

\* two labels that differ at most in the case of letters and in which of
\* space, hyphen and underscore separates their parts
SameLabel(a, b) ==
    /\ Len(a) = Len(b)
    /\ \A i \in 1..Len(a) :
          \/ a[i] = b[i]
          \/ {a[i], b[i]} \subseteq Separators
          \/ \E n \in DOMAIN UpperCase : IsLetter(a[i], n) /\ IsLetter(b[i], n)

ReferenceRows == {j \in DOMAIN df_sections : pd_notna(df_sections[j].word)}

\* the entry a label stands for as a reference word: that of the last
\* reference row with such a word
ReferenceEntry(a) ==
    LET rows == {j \in ReferenceRows : SameLabel(df_sections[j].word.v, a)}
        last == CHOOSE j \in rows : \A o \in rows : o <= j
    IN  [section_number |-> df_sections[last].section_number,
         section_title |-> df_sections[last].section_title,
         cdi_code |-> df_sections[last].cdi_code]

\* what a column resolves to: the section fields of its records
Resolved(c) == {SectionFields(df_result[k]) : k \in RecordsOfColumn(c)}

ProducedColumns ==
    {c \in WordColumns : \E i \in DOMAIN df : MarksProduced(df[i][c])}

\* reference words that differ in case and separator only share one key
ReferenceSideInsensitive ==
    /\ Cardinality(DOMAIN word_to_section)
          = Cardinality({{j \in ReferenceRows :
                             SameLabel(df_sections[j].word.v, df_sections[i].word.v)} :
                         i \in ReferenceRows})
    /\ \A i \in ReferenceRows :
          /\ NormalForm(df_sections[i].word.v) \in DOMAIN word_to_section
          /\ word_to_section[NormalForm(df_sections[i].word.v)]
                = ReferenceEntry(df_sections[i].word.v)

\* column names that differ in case and separator only resolve alike
ColumnSideInsensitive ==
    \A c1 \in ProducedColumns : \A c2 \in ProducedColumns :
        SameLabel(c1, c2) => Resolved(c1) = Resolved(c2)

\* a column resolves to the entry of a reference word that differs from its
\* name in case and separator only
JoinInsensitive(labels) ==
    \A j \in ReferenceRows : \A c \in ProducedColumns \cap labels :
        SameLabel(df_sections[j].word.v, c) =>
            Resolved(c) = {ReferenceEntry(df_sections[j].word.v)}

AllLabels == Range(df_columns)
DotFreeLabels == {c \in Range(df_columns) : "." \notin Range(c)}

(* C8 as stated: labels that differ in case and separator only resolve to
   the same entry, as reference words, as column names, and one as a
   reference word with the other as a column name. *)
C8_LookupInsensitiveAnyLabel ==
    pc = "processed" =>
        /\ ReferenceSideInsensitive
        /\ ColumnSideInsensitive
        /\ JoinInsensitive(AllLabels)

(* C8 amended: the same, a column name resolving to the entry of such a
   reference word when the labels hold no dot. *)
C8_LookupInsensitive ==
    pc = "processed" =>
        /\ ReferenceSideInsensitive
        /\ ColumnSideInsensitive
        /\ JoinInsensitive(DotFreeLabels)

C8_Witness ==
    /\ pc = "processed"
    /\ Len(df_sections) = 2
    /\ df_sections[1].word = Str(IceCreamHyphen)
    /\ df_sections[2].word = Str(Mommy)
    /\ df_columns = <<subject_id, MommyUpper, IceCreamUnderscore>>
    /\ Len(df_result) = 2
    /\ df_result[1].section_number = Num(21)
    /\ df_result[2].section_number = Num(14)

(* C10: the decoded words_produced of a metrics record has total_words
   entries, the i-th with the word, the section title and the section number
   of the i-th long-format record of the subject. *)
C10_WordsProducedRoundTrip ==
    MetricsDone =>
        \A g \in DOMAIN df_metrics :
            LET m == df_metrics[g]
                decoded == [i \in DOMAIN m.words_produced |->
                               [f \in DOMAIN m.words_produced[i] |->
                                   json_loads(m.words_produced[i][f])]]
                records == SubjectRecords(g)
            IN  /\ Len(decoded) = m.total_words
                /\ Len(decoded) = Len(records)
                /\ \A i \in DOMAIN decoded :
                      /\ decoded[i].word = Str(records[i].word)
                      /\ decoded[i].section_title = records[i].section_title
                      /\ decoded[i].section_number = records[i].section_number

C10_Witness ==
    /\ MetricsDone
    /\ \E g \in DOMAIN df_metrics :
          /\ df_metrics[g].total_words = 3
          /\ df_metrics[g].words_produced[1].section_number = JNumber(5)
          /\ df_metrics[g].words_produced[2].section_number = JNumber(15)
          /\ df_metrics[g].words_produced[3].section_number = JNull

-----------------------------------------------------------------------------
(* Vocabulary of the section aggregates *)

\* the long-format records of the group of the aggregate record a, in
\* long-format order
GroupRecords(a) ==
    SelectSeq(df_result,
              LAMBDA r : r.meta = a.info /\ SectionFields(r) = SectionFields(a))

RECURSIVE SumWordCount(_)
SumWordCount(rows) ==
    IF rows = <<>> THEN 0 ELSE Head(rows).word_count + SumWordCount(Tail(rows))

(* C11: the word_count of a section aggregate record is the length of its
   words, and its words are the words of the long-format records of its
   group, in long-format order. *)
C11_WordsListTheGroup ==
    AggregatedDone =>
        \A k \in DOMAIN df_agg :
            LET a == df_agg[k]
                records == GroupRecords(a)
            IN  /\ a.word_count = Len(a.words)
                /\ a.words = [i \in 1..Len(records) |-> records[i].word]

C11_Witness ==
    /\ AggregatedDone
    /\ Len(df) = 2
    /\ \E k \in DOMAIN df_agg :
          /\ df_agg[k].words = <<Dog, Cat, Dog, Cat>>
          /\ df_agg[k].word_count = 4

\* the grouping key of an aggregate record: the metadata it carries and its
\* section fields
GroupKey(a) == <<a.info, a.section_number, a.section_title, a.cdi_code>>

(* C12 as stated: no two section aggregate records have the same subject_id
   and the same section_number. *)
C12_OneRowPerSubjectSection ==
    (AggregatedDone /\ subject_id \in Range(df_columns)) =>
        \A k1 \in DOMAIN df_agg : \A k2 \in DOMAIN df_agg :
            (/\ df_agg[k1].info[subject_id] = df_agg[k2].info[subject_id]
             /\ df_agg[k1].section_number = df_agg[k2].section_number) => k1 = k2

(* C12 amended: no two section aggregate records have the same metadata
   fields and the same section number, section title and taxonomy code. *)
C12_OneRowPerGroupKey ==
    AggregatedDone =>
        \A k1 \in DOMAIN df_agg : \A k2 \in DOMAIN df_agg :
            GroupKey(df_agg[k1]) = GroupKey(df_agg[k2]) => k1 = k2

C12_Witness ==
    /\ AggregatedDone
    /\ Len(df_result) = 4
    /\ Len(df_agg) = 2
    /\ df_agg[1].info = (subject_id :> Str(S1)) @@ (age :> Num(24))
    /\ df_agg[2].info = (subject_id :> Str(S1)) @@ (age :> Num(30))
    /\ df_agg[1].section_number = df_agg[2].section_number

-----------------------------------------------------------------------------
(* Vocabulary of the rows of the raw table *)

\* the word columns of raw row i that are marked as produced and have a
\* taxonomy entry
MatchedColumns(i) ==
    {c \in WordColumns :
        MarksProduced(df[i][c]) /\ LookupKey(c) \in DOMAIN word_to_section}

\* the long-format records of raw row i: the table holds the records of the
\* rows one row after the other
RecordsOfRow(i) ==
    LET before[j \in 0..Len(df)] ==
            IF j = 0 THEN 0 ELSE before[j - 1] + Cardinality(MatchedColumns(j))
    IN  SubSeq(df_result, before[i - 1] + 1, before[i])

(* C13 as stated: no two long-format records of one raw row carry the same
   word. *)
C13_OneRecordPerWord ==
    pc = "processed" =>
        \A i \in DOMAIN df :
            LET records == RecordsOfRow(i)
            IN  \A a \in DOMAIN records : \A b \in DOMAIN records :
                    records[a].word = records[b].word => a = b

(* C13 amended: no two long-format records of one raw row carry the same
   word_column, and two of them carry the same word exactly when their
   columns have the same lookup key. *)
C13_OneRecordPerColumn ==
    pc = "processed" =>
        \A i \in DOMAIN df :
            LET records == RecordsOfRow(i)
            IN  /\ Len(records) = Cardinality(MatchedColumns(i))
                /\ \A a \in DOMAIN records : records[a].word_column \in MatchedColumns(i)
                /\ \A a \in DOMAIN records : \A b \in DOMAIN records :
                      /\ records[a].word_column = records[b].word_column => a = b
                      /\ records[a].word = records[b].word
                            <=> LookupKey(records[a].word_column)
                                    = LookupKey(records[b].word_column)

C13_Witness ==
    /\ pc = "processed"
    /\ Len(df) = 1
    /\ Len(df_result) >= 2
    /\ \E a \in DOMAIN df_result : \E b \in DOMAIN df_result :
          /\ df_result[a].word_column = ChickenAnimal
          /\ df_result[b].word_column = ChickenFood
          /\ df_result[a].word = df_result[b].word

(* C14: the word columns the processing pass derives from the columns of the
   raw table are the word columns the metadata pass derives from them,
   whichever metadata columns the table holds. *)
C14_SameWordColumnsInBothPasses ==
    pc = "processed" =>
        /\ word_columns(df_columns) = word_columns_metrics(df_columns)
        /\ Range(word_columns(df_columns)) = WordColumns

C14_Witness ==
    /\ MetricsDone
    /\ df_original = <<df_columns, df>>
    /\ df_columns = <<subject_id, Link, Dog, Zebra>>
    /\ word_columns(df_columns) = <<Dog, Zebra>>
    /\ Len(df_metrics) = 1
    /\ DOMAIN df_metrics[1].parent_info = {subject_id, Link}

-----------------------------------------------------------------------------
(* Vocabulary of parent_info *)

\* the rows of the raw table passed to calculate_key_metrics that carry the
\* subject_id of the g-th metrics record
MatchingRows(g) ==
    IF df_original = <<>> THEN {}
    ELSE IF subject_id \notin Range(df_original[1]) THEN {}
    ELSE IF subject_id \notin DOMAIN df_metrics[g].info THEN {}
    ELSE {i \in DOMAIN df_original[2] :
             df_original[2][i][subject_id] = df_metrics[g].info[subject_id]}

\* the text of a cell: the text itself, the digits of a number, with ".0"
\* when the column of the number holds a missing value
Stringified(rows, i, col) ==
    IF col # age THEN rows[i][col].v
    ELSE IF \E j \in DOMAIN rows : pd_isna(rows[j][col])
         THEN str_int(rows[i][col].v) \o <<".", "0">>
         ELSE str_int(rows[i][col].v)

(* C15: the parent_info of a metrics record holds, of the first raw row
   with the subject_id of the record, the cells that are not word columns
   and not missing, as text; it is empty when no raw table is passed or no
   raw row has the subject_id. *)
C15_ParentInfoOfFirstRow ==
    MetricsDone =>
        \A g \in DOMAIN df_metrics :
            LET info == df_metrics[g].parent_info
                rows == MatchingRows(g)
            IN  IF rows = {} THEN info = EmptyDict
                ELSE LET first == CHOOSE i \in rows : \A j \in rows : i <= j
                         raw == df_original[2]
                     IN  /\ DOMAIN info
                               = {col \in Range(df_original[1]) \ WordColumns :
                                     pd_notna(raw[first][col])}
                         /\ DOMAIN info \cap WordColumns = {}
                         /\ \A col \in DOMAIN info :
                               info[col] = JString(Stringified(raw, first, col))

C15_Witness ==
    /\ MetricsDone
    /\ df_original = <<df_columns, df>>
    /\ df_columns = <<subject_id, age, Dog, Cat>>
    /\ Len(df) = 2
    /\ df[1][age] = Num(24)
    /\ df[2][age] = NaN
    /\ Len(df_metrics) = 1
    /\ df_metrics[1].parent_info
          = (subject_id :> JString(S1)) @@ (age :> JString(<<"2", "4", ".", "0">>))

\* no cell of the raw table is marked as produced in a column that has a
\* taxonomy entry
NoMatchedWord == \A i \in DOMAIN df : MatchedColumns(i) = {}

(* C16: a raw table with no produced word that has a taxonomy entry gives an
   empty long-format table, and of an empty long-format table the metrics
   and the section aggregates are empty. *)
C16_EmptyInEmptyOut ==
    /\ (pc = "processed" /\ NoMatchedWord) => df_result = <<>>
    /\ (MetricsDone /\ df_result = <<>>) =>
          df_metrics = <<>> /\ metrics_columns = <<>>
    /\ (AggregatedDone /\ df_result = <<>>) => df_agg = <<>>

C16_Witness ==
    /\ MetricsDone /\ AggregatedDone
    /\ df_sections = <<>>
    /\ df_columns = <<subject_id, Link, Dog, Zebra>>
    /\ df[1][Dog] = Str(Produces)
    /\ df[1][Zebra] = Str(NotYet)
    /\ df_original = <<df_columns, df>>
    /\ df_result = <<>> /\ df_metrics = <<>> /\ df_agg = <<>>

-----------------------------------------------------------------------------
(* Vocabulary of the mapping *)

MappingLoaded == pc \in {"loaded", "processed"}

\* the reference rows whose word has the normal form k
RowsOfKey(k) == {j \in ReferenceRows : NormalForm(df_sections[j].word.v) = k}

(* C17: the mapping has one key for each normal form of a reference word,
   with the section fields of the last reference row of that normal form; a
   reference row without a word adds no key. *)
C17_LastReferenceRowWins ==
    MappingLoaded =>
        /\ DOMAIN word_to_section
              = {NormalForm(df_sections[j].word.v) : j \in ReferenceRows}
        /\ \A k \in DOMAIN word_to_section :
              LET last == CHOOSE j \in RowsOfKey(k) : \A o \in RowsOfKey(k) : o <= j
              IN  word_to_section[k] = SectionFields(df_sections[last])

C17_Witness ==
    /\ pc = "loaded"
    /\ Len(df_sections) = 3
    /\ df_sections[1].word = Str(Dog)
    /\ df_sections[2].word = NaN
    /\ df_sections[3].word = Str(<<"D", "o", "g">>)
    /\ DOMAIN word_to_section = {Dog}
    /\ word_to_section[Dog].section_number = Num(15)

(* C18: every long-format record lies in the group of exactly one section
   aggregate record, so that the word counts add up to the size of the
   long-format table. *)
C18_AggregatesCoverLongTable ==
    AggregatedDone =>
        /\ \A i \in DOMAIN df_result :
              Cardinality({k \in DOMAIN df_agg :
                              /\ df_agg[k].info = df_result[i].meta
                              /\ SectionFields(df_agg[k]) = SectionFields(df_result[i])
                              /\ df_result[i].word \in Range(df_agg[k].words)}) = 1
        /\ SumWordCount(df_agg) = Len(df_result)

====
